---- MODULE Spec2Model ----
(***************************************************************************)
(* Model of the NETINT T4XX encoder session of src/netint-encoder.c: the   *)
(* host thread (netint_encode, netint_encode_batch, netint_encode_flush,   *)
(* netint_destroy), the background receive thread (netint_recv_thread),    *)
(* the packet queue they share, and the device behind the SDK calls        *)
(* ni_logan_device_session_write / ni_logan_device_session_read.           *)
(*                                                                         *)
(* The two threads interleave at every SDK call and at every access to a   *)
(* field of struct netint_ctx that both threads use; code between two such *)
(* points touches only locals and belongs to the step before it.  bmalloc  *)
(* and bzalloc of libobs abort the process instead of returning NULL, so   *)
(* their failure branches are not steps of the model.                      *)
(***************************************************************************)
EXTENDS Integers, Sequences, FiniteSets, TLC

(* ---- bounds of the model ---------------------------------------------- *)
\* packets the device emits in one session
MaxPackets == 2
\* data frames the device accepts in one session
MaxFrames == 2
\* data frames the device accepts in a session of the runs that only send
MaxFramesInflight == 5
\* FIFO-full retries of a data frame: max_retries of netint_encode_batch
\* (100 in the source), scaled
BatchMaxRetries == 2
\* FIFO-full retries of the EOS frame in netint_encode_flush (100), scaled
FlushMaxRetries == 2
\* FIFO-full retries of the EOS frame in netint_destroy (300), scaled
DestroyMaxRetries == 2
\* polls of encoder_eof in netint_destroy: max_wait_ms / sleep_ms (300), scaled
DestroyMaxWait == 2
\* polls of got_headers in netint_get_extra_data (50), scaled
MaxPolls == 2
\* symbols a library file of the loader runs lacks at most
MaxMissing == 1

(* ---- program constants ------------------------------------------------ *)
\* bytes of firmware metadata in front of the bitstream of a device packet
MetaSize == 16
\* payload size the synchronous receive of netint_encode takes for headers
HeaderPacketSize == 65
\* frame_buffer.capacity as netint_create sets it
Capacity == 1
\* consecutive errors from which netint_log_error reports the encoder broken
MAX_CONSECUTIVE_ERRORS == 5

\* payload sizes the device may produce: a header-sized one and another
PayloadSizes == {HeaderPacketSize, HeaderPacketSize + 35}

NoPkt == [id |-> 0, eos |-> FALSE, size |-> 0]
\* the header cache: where its bytes come from (nothing, extradata of the
\* parameter parse, or size bytes at offset off of device packet id)
NoExtra == [src |-> "none", id |-> 0, off |-> 0, size |-> 0]
ParseExtra == [src |-> "parse", id |-> 0, off |-> 0, size |-> 40]

\* nothing was put into the queue, nothing freed, and no SDK buffer exists
NoMem == [enqueued |-> <<>>, freed |-> <<>>, frame_buf |-> "none",
          sync_buf |-> "none", pkt_buf |-> "none"]

\* an SDK buffer after ni_logan_encoder_frame_buffer_alloc or
\* ni_logan_packet_buffer_alloc returned success: it exists; when it existed
\* already the old one is lost
BufAlloc(b) == IF b = "none" THEN "live" ELSE "bad"

\* a free that does nothing
BufFreeNothing(b) == b

\* an SDK buffer after ni_logan_frame_buffer_free or
\* ni_logan_packet_buffer_free: gone; a buffer that did not exist has been
\* freed twice or was never allocated
BufFree(b) == IF b = "live" THEN "none" ELSE "bad"

\* no packet has a successor
NoLinks == [p \in 1..MaxPackets |-> 0]

VARIABLES
    \* struct netint_ctx
    flushing, got_headers, extra, encoder_eof, stop_thread, thread_created,
    frame_count, started, fb_count, fb_frame, pkt_queue_head, pkt_queue_tail,
    pkt_next,
    consecutive_errors, total_errors, p_session_ctx, queue_mutex,
    \* the vendor library on disk and the loader's statics
    lib, s_lib_handle, resolved,
    \* observations of the loader: the first successful open, and whether a
    \* later open succeeded
    first_open, reopened,
    \* the settings of a netint_create whose parameter block is run on its
    \* own, and what that block computed and handed to the SDK
    settings, applied,
    \* the running netint_create call, its result and the SDK calls it made
    creating, create_ret, sdk_log,
    \* host thread: position, argument and locals of the running call
    hpc, frame, retry, sync_pkt, ret, received,
    \* what the netint_get_extra_data call that returned last reported, until
    \* the next call of the host begins
    xres,
    \* worker thread: position and locals
    wpc, recv_size, ni_pkt,
    \* the device behind the SDK session; dev_written is the metadata of the
    \* frames it accepted, in order
    dev_frames, dev_sos, dev_written, dev_eos, dev_emitted, dev_eos_emitted,
    session_open,
    \* observations of the run (history)
    submitted, delivered, host_sdk_in_worker, reads_after_stop, discarded,
    err_run, why,
    \* what became of the memory the session allocated: the packets put into
    \* the queue, and the packets netint_destroy freed, both in order; and the
    \* SDK buffers of the running calls: the frame buffer of the host thread,
    \* the packet buffer of its synchronous receive and the packet buffer of
    \* the receive thread
    mem

\* the packet queue: the list of struct netint_pkt from pkt_queue_head to
\* pkt_queue_tail; a packet is named by the number of the device packet it
\* holds, 0 is the null pointer, pkt_next[p] is p->next
qVars == <<pkt_queue_head, pkt_queue_tail, pkt_next>>

ctxVars == <<flushing, got_headers, extra, encoder_eof, stop_thread,
             thread_created, frame_count, started, fb_count, fb_frame, qVars>>
hostVars == <<hpc, frame, retry, sync_pkt, ret, received, xres>>
workerVars == <<wpc, recv_size, ni_pkt>>
devVars == <<dev_frames, dev_sos, dev_written, dev_eos, dev_emitted,
             dev_eos_emitted, session_open>>
histVars == <<submitted, delivered, host_sdk_in_worker, reads_after_stop,
              discarded, err_run, why>>
\* what neither thread changes once netint_create has returned a session
envVars == <<consecutive_errors, total_errors, lib, s_lib_handle, resolved,
             sdk_log, p_session_ctx, first_open, reopened, settings,
             applied>>
\* what only netint_create and netint_destroy change
callVars == <<creating, create_ret, queue_mutex>>
vars == <<ctxVars, hostVars, workerVars, devVars, histVars, envVars, callVars,
          mem>>

(* ---- the packet queue -------------------------------------------------- *)
\* the packets reached from p by at most n steps along next
RECURSIVE Chain(_, _)
Chain(p, n) ==
    IF p = 0 \/ n = 0 THEN <<>> ELSE <<p>> \o Chain(pkt_next[p], n - 1)

\* the packets of the queue, from pkt_queue_head on
queue == Chain(pkt_queue_head, MaxPackets)

(* ---- the device -------------------------------------------------------- *)
\* sign of the return value of ni_logan_device_session_write:
\* negative (error), zero (FIFO full), positive (bytes accepted)
WriteResults == {-1, 0, 1}

\* packets a read may return next: the device numbers its packets in the
\* order it emits them, emits nothing before it accepted a data frame, flags
\* end_of_stream only after it accepted an EOS frame, and emits nothing after
\* its end-of-stream packet
NextPackets ==
    IF dev_frames > 0 /\ dev_emitted < MaxPackets /\ ~dev_eos_emitted
    THEN {[id |-> dev_emitted + 1, eos |-> e, size |-> s] :
              e \in (IF dev_eos > 0 THEN BOOLEAN ELSE {FALSE}),
              s \in PayloadSizes}
    ELSE {}

\* outcomes of ni_logan_device_session_read: an error, nothing yet, or the
\* next packet with its metadata in front
ReadResults ==
    {[rc |-> -1, pkt |-> NoPkt], [rc |-> 0, pkt |-> NoPkt]}
    \cup {[rc |-> MetaSize + p.size, pkt |-> p] : p \in NextPackets}

\* the device side of a read that returned r
DeviceRead(r) ==
    /\ dev_emitted' = IF r.pkt.id # 0 THEN r.pkt.id ELSE dev_emitted
    /\ dev_eos_emitted' = (dev_eos_emitted \/ r.pkt.eos)

WorkerAlive == wpc \notin {"unborn", "exited"}

(* ---- error observation -------------------------------------------------- *)
\* negative returns the device reads and writes have had in a row, counted
\* up to MAX_CONSECUTIVE_ERRORS and only while the host thread is the one
\* thread that calls the device (the receive thread is not running): the
\* count after a host call that returned rc
HostRun(run, rc) ==
    IF rc < 0 /\ ~WorkerAlive
    THEN (IF run < MAX_CONSECUTIVE_ERRORS THEN run + 1 ELSE run)
    ELSE 0

(* ---- the vendor library and its loader --------------------------------- *)
\* the function pointers of the loader in the order ni_libxcoder_open
\* assigns them: ni_logan_encode_init, ni_logan_encode_params_parse, the
\* other required ones up to ni_logan_encode_receive ("core"), the two of
\* device discovery, ni_logan_encoder_params_set_value,
\* ni_logan_encoder_gop_params_set_value, ni_logan_set_vui and
\* ni_log_set_callback
SymbolOrder == <<"init", "parse", "core", "rsrc_init", "rsrc_list",
                 "set_value", "gop_set_value", "vui", "log_cb">>

Symbols == {SymbolOrder[i] : i \in DOMAIN SymbolOrder}

\* a loader that tolerates the absence of every symbol
OptionalAll == Symbols

\* the symbols ni_libxcoder_open looks up with a plain os_dlsym instead of
\* RESOLVE: their absence leaves a null pointer and the open goes on
Optional == {"rsrc_init", "rsrc_list", "set_value", "log_cb"}

\* a library file: whether os_dlopen finds it, and the symbols it exports
LibFile(p, syms) == [present |-> p, syms |-> syms]

\* no library file
Absent == LibFile(FALSE, {})

\* the library files of the create runs: missing, lacking a required symbol
\* (the first, the second or the last resolved), lacking the optional
\* setter, or complete
LibKinds ==
    {Absent, LibFile(TRUE, Symbols \ {"init"}),
     LibFile(TRUE, Symbols \ {"parse"}), LibFile(TRUE, Symbols \ {"vui"}),
     LibFile(TRUE, Symbols \ {"set_value"}), LibFile(TRUE, Symbols)}

\* the place in SymbolOrder of the first RESOLVE that finds no symbol in the
\* file l; past the end when there is none
FirstMissing(l) ==
    LET miss == {i \in DOMAIN SymbolOrder :
                     SymbolOrder[i] \notin Optional
                     /\ SymbolOrder[i] \notin l.syms}
    IN IF miss = {} THEN Len(SymbolOrder) + 1
       ELSE CHOOSE i \in miss : \A j \in miss : i <= j

\* the pointers ni_libxcoder_open assigns before it returns, the one of a
\* failing RESOLVE included
Reached(l) ==
    {SymbolOrder[i] : i \in {j \in DOMAIN SymbolOrder : j <= FirstMissing(l)}}

\* the pointers ni_libxcoder_open has set to a function when it returns, for
\* a library file that could be opened
Resolves(l) == Reached(l) \cap l.syms

\* whether os_dlopen and every RESOLVE of ni_libxcoder_open succeed
Loads(l) == l.present /\ FirstMissing(l) > Len(SymbolOrder)

\* an os_dlsym result that is stored only when the symbol was found
AssignedKeepsOld(old, l) == old \cup Resolves(l)

\* the pointer table after the assignments of an open of the file l: every
\* pointer reached holds what os_dlsym returned, null included; the others
\* keep their value
Assigned(old, l) == (old \ Reached(l)) \cup Resolves(l)

\* ni_libxcoder_open: nothing to do with a handle; else os_dlopen, then the
\* symbols in order, and at the first missing required one
\* ni_libxcoder_close, which drops the handle and leaves the pointers.  A
\* successful open is noted: the first with its file and table, a later one
\* as a reopen
LoaderInit ==
    IF s_lib_handle \/ ~lib.present
    THEN UNCHANGED <<s_lib_handle, resolved, first_open, reopened>>
    ELSE /\ resolved' = Assigned(resolved, lib)
         /\ s_lib_handle' = Loads(lib)
         /\ first_open' = IF Loads(lib) /\ first_open = <<>>
                          THEN <<[lib |-> lib, table |-> resolved']>>
                          ELSE first_open
         /\ reopened' = (reopened \/ (Loads(lib) /\ first_open # <<>>))

\* a call through the pointer of sym can go wrong: the pointer is null, or
\* it points into a library that has been closed
CallCanCrash(sym) == sym \notin resolved \/ ~s_lib_handle

\* a call through the pointer of sym can run: the pointer is set
CallCanRun(sym) == sym \in resolved

(* ---- the settings and the encoder parameters -------------------------- *)
\* the values of the settings netint_create reads
RcModes == {"CBR", "VBR", "DISABLED"}
Codecs == {"h264", "hevc"}
Profiles == {"baseline", "main", "high", "main10", ""}
GopPresets == {"default", "simple"}
Keyints == {0, 1, 2}
FrameRates == {<<30, 1>>, <<60, 1>>, <<30000, 1001>>}
Bitrates == {6000}

Settings ==
    [rc_mode : RcModes, codec : Codecs, profile : Profiles,
     gop_preset : GopPresets, keyint : Keyints, fps : FrameRates,
     bitrate : Bitrates]

\* the defaults of netint_get_defaults on the H.264 encoder at 30 fps
DefaultSettings ==
    [rc_mode |-> "CBR", codec |-> "h264", profile |-> "high",
     gop_preset |-> "default", keyint |-> 2, fps |-> <<30, 1>>,
     bitrate |-> 6000]

\* the parameter block has not run
NotApplied == [done |-> FALSE, keyint_frames |-> 0, sets |-> <<>>]

\* one ni_logan_encoder_params_set_value(params, name, value, session_ctx)
SetValue(n, v) == [name |-> n, value |-> v]

\* ctx->keyint_frames: the seconds, 2 when the setting is not positive,
\* times the frame rate, cut to an integer
KeyintFrames(st) ==
    LET seconds == IF st.keyint <= 0 THEN 2 ELSE st.keyint
    IN (seconds * st.fps[1]) \div st.fps[2]

\* the value of gopPresetIdx
GopValue(gop) == IF gop = "simple" THEN "2" ELSE "5"

\* a cbr that is 1 whatever the mode
CbrValueAlways(rc) == "1"

\* the value of cbr: 1 for the mode "CBR", 0 for every other mode
CbrValue(rc) == IF rc = "CBR" THEN "1" ELSE "0"

\* a profile id that follows the name for H.265 too
ProfileIdByName(codec, profile) ==
    CASE profile = "baseline" -> "1"
      [] profile = "main" -> IF codec = "hevc" THEN "1" ELSE "2"
      [] profile = "main10" -> IF codec = "hevc" THEN "2" ELSE "null"
      [] profile = "high" -> "4"
      [] OTHER -> "null"

\* profile_id_str: for H.265 always "1"; for H.264 by name, and a null
\* pointer for a name that is none of the three
ProfileId(codec, profile) ==
    IF codec = "hevc" THEN "1"
    ELSE CASE profile = "baseline" -> "1"
           [] profile = "main" -> "2"
           [] profile = "high" -> "4"
           [] OTHER -> "null"

\* the ni_logan_encoder_params_set_value calls of netint_create in their
\* order, the numbers printed in decimal; the last is made only with a
\* profile id
ParamSets(st) ==
    <<SetValue("gopPresetIdx", GopValue(st.gop_preset)),
      SetValue("RcEnable", "1"),
      SetValue("bitrate", ToString(st.bitrate * 1000)),
      SetValue("frameRate", ToString(st.fps[1])),
      SetValue("frameRateDenom", ToString(st.fps[2])),
      SetValue("RcInitDelay", "3000"),
      SetValue("cbr", CbrValue(st.rc_mode))>>
    \o (IF ProfileId(st.codec, st.profile) = "null" THEN <<>>
        ELSE <<SetValue("profile", ProfileId(st.codec, st.profile))>>)

(* ---- initial state: netint_create returned a session ------------------- *)
Init ==
    /\ flushing = FALSE
    /\ got_headers \in BOOLEAN
    /\ extra = (IF got_headers THEN ParseExtra ELSE NoExtra)
    /\ encoder_eof = FALSE
    /\ stop_thread = FALSE
    /\ thread_created = TRUE
    /\ frame_count = 0
    /\ started = FALSE
    /\ fb_count = 0
    /\ fb_frame = "none"
    /\ pkt_queue_head = 0
    /\ pkt_queue_tail = 0
    /\ pkt_next = NoLinks
    /\ hpc = "idle"
    /\ frame = "none"
    /\ retry = 0
    /\ sync_pkt = NoPkt
    /\ ret = TRUE
    /\ received = FALSE
    /\ xres = <<>>
    /\ wpc = "start"
    /\ recv_size = 0
    /\ ni_pkt = NoPkt
    /\ dev_frames = 0
    /\ dev_sos = 0
    /\ dev_written = <<>>
    /\ dev_eos = 0
    /\ dev_emitted = 0
    /\ dev_eos_emitted = FALSE
    /\ session_open = TRUE
    /\ submitted = "none"
    /\ delivered = <<>>
    /\ host_sdk_in_worker = FALSE
    /\ reads_after_stop = 0
    /\ discarded = FALSE
    /\ consecutive_errors = 0
    /\ total_errors = 0
    /\ p_session_ctx = TRUE
    /\ queue_mutex = "init"
    /\ lib = LibFile(TRUE, Symbols)
    /\ s_lib_handle = TRUE
    /\ resolved = Symbols
    /\ first_open = <<[lib |-> lib, table |-> Symbols]>>
    /\ reopened = FALSE
    /\ settings = DefaultSettings
    /\ applied = NotApplied
    /\ creating = FALSE
    /\ create_ret = "ctx"
    /\ sdk_log = <<>>
    /\ err_run = 0
    /\ why = "none"
    /\ mem = NoMem

(* ======================= netint_recv_thread ============================ *)
\* ni_logan_packet_buffer_alloc at thread start; a failure ends the thread
RecvStart ==
    /\ wpc = "start"
    /\ \E ok \in BOOLEAN :
         /\ wpc' = IF ok THEN "loop" ELSE "exited"
         /\ mem' = IF ok THEN [mem EXCEPT !.pkt_buf = BufAlloc(@)] ELSE mem
    /\ UNCHANGED <<ctxVars, hostVars, recv_size, ni_pkt, devVars, histVars,
                   envVars, callVars>>

\* the flag is never seen set, as when its reads are hoisted out of the loop
StopNeverSeen(stop) == FALSE

\* a read of the volatile flag ctx->stop_thread by the receive thread
StopSeen(stop) == stop

\* the loop condition of the receive loop
LoopContinues(stop) == ~StopSeen(stop)

\* while (!ctx->stop_thread)
RecvLoop ==
    /\ wpc = "loop"
    /\ wpc' = IF LoopContinues(stop_thread) THEN "read" ELSE "exited"
    /\ mem' = IF wpc' = "exited" THEN [mem EXCEPT !.pkt_buf = BufFree(@)]
              ELSE mem
    /\ UNCHANGED <<ctxVars, hostVars, recv_size, ni_pkt, devVars, histVars,
                   envVars, callVars>>

\* ni_logan_device_session_read into the thread's packet buffer
RecvRead ==
    /\ wpc = "read"
    /\ \E r \in ReadResults :
         /\ recv_size' = r.rc
         /\ ni_pkt' = r.pkt
         /\ DeviceRead(r)
    /\ reads_after_stop' =
         IF stop_thread THEN reads_after_stop + 1 ELSE reads_after_stop
    /\ wpc' = "after_read"
    /\ UNCHANGED <<mem, ctxVars, hostVars, dev_frames, dev_sos, dev_written,
                   dev_eos, session_open, submitted, delivered,
                   host_sdk_in_worker, discarded, err_run, why, envVars,
                   callVars>>

\* the check after the blocking call
BreakAfterRead(stop) == StopSeen(stop)

\* a loop that any negative return ends
EofBreakOnError(size, eof) == size < 0

\* the break of the branch recv_size < 0: taken when encoder_eof is set
EofBreak(size, eof) == size < 0 /\ eof

\* from "if (ctx->stop_thread) break" to the test of got_headers
RecvAfterRead ==
    /\ wpc = "after_read"
    /\ IF BreakAfterRead(stop_thread)
       THEN /\ wpc' = "exited"
            /\ discarded' = (discarded \/ (recv_size > MetaSize
                                             /\ reads_after_stop = 0))
            /\ recv_size' = 0
            /\ ni_pkt' = NoPkt
            /\ UNCHANGED encoder_eof
       ELSE /\ UNCHANGED discarded
            /\ IF recv_size > MetaSize
               THEN /\ encoder_eof' = (encoder_eof \/ ni_pkt.eos)
                    /\ wpc' = IF ~got_headers THEN "set_headers" ELSE "enqueue"
                    /\ UNCHANGED <<recv_size, ni_pkt>>
               ELSE /\ UNCHANGED encoder_eof
                    /\ wpc' = IF EofBreak(recv_size, encoder_eof)
                              THEN "exited" ELSE "loop"
                    /\ recv_size' = 0
                    /\ ni_pkt' = NoPkt
    /\ mem' = IF wpc' = "exited" THEN [mem EXCEPT !.pkt_buf = BufFree(@)]
              ELSE mem
    /\ UNCHANGED <<flushing, got_headers, extra, stop_thread, thread_created,
                   frame_count, started, fb_count, fb_frame, qVars, hostVars,
                   devVars, submitted, delivered, host_sdk_in_worker,
                   reads_after_stop, err_run, why, envVars, callVars>>

\* ctx->extra = bmemdup(pkt->data, pkt->size); ctx->got_headers = true
RecvSetHeaders ==
    /\ wpc = "set_headers"
    /\ extra' = [src |-> "pkt", id |-> ni_pkt.id, off |-> MetaSize,
                  size |-> ni_pkt.size]
    /\ got_headers' = TRUE
    /\ wpc' = "enqueue"
    /\ UNCHANGED <<mem, flushing, encoder_eof, stop_thread, thread_created,
                   frame_count, started, fb_count, fb_frame, qVars, hostVars,
                   recv_size, ni_pkt, devVars, histVars, envVars, callVars>>

\* an unlock that leaves the mutex with its owner
ReleasedNever(m) == m

\* pthread_mutex_unlock
Released(m) == "init"

\* pthread_mutex_lock(&ctx->queue_mutex) of the receive thread, which
\* returns when the mutex is free
RecvLock ==
    /\ wpc = "enqueue"
    /\ queue_mutex = "init"
    /\ queue_mutex' = "worker"
    /\ wpc' = "locked"
    /\ UNCHANGED <<mem, ctxVars, hostVars, recv_size, ni_pkt, devVars,
                   histVars, envVars, creating, create_ret>>

\* the head after pkt was added behind the tail t: the head h when there is
\* a tail, else pkt
HeadAfterPush(h, t, pkt) == IF t # 0 THEN h ELSE pkt

\* pkt->next = NULL, the packet is linked behind the tail, or becomes head
\* and tail of an empty queue, and unlock
RecvEnqueue ==
    /\ wpc = "locked"
    /\ pkt_next' = [p \in DOMAIN pkt_next |->
                       IF p = pkt_queue_tail THEN ni_pkt.id
                       ELSE IF p = ni_pkt.id THEN 0 ELSE pkt_next[p]]
    /\ pkt_queue_head' = HeadAfterPush(pkt_queue_head, pkt_queue_tail,
                                       ni_pkt.id)
    /\ pkt_queue_tail' = ni_pkt.id
    /\ mem' = [mem EXCEPT !.enqueued = Append(@, ni_pkt.id)]
    /\ queue_mutex' = Released(queue_mutex)
    /\ recv_size' = 0
    /\ ni_pkt' = NoPkt
    /\ wpc' = "loop"
    /\ UNCHANGED <<flushing, got_headers, extra, encoder_eof, stop_thread,
                   thread_created, frame_count, started, fb_count, fb_frame,
                   hostVars, devVars, histVars, envVars, creating,
                   create_ret>>

Worker == RecvStart \/ RecvLoop \/ RecvRead \/ RecvAfterRead
          \/ RecvSetHeaders \/ RecvLock \/ RecvEnqueue

(* ============================ netint_encode ============================ *)
\* what the host thread leaves alone in every step of netint_encode
encKept == <<encoder_eof, stop_thread, thread_created, workerVars,
             session_open, reads_after_stop, discarded, envVars, creating,
             create_ret>>

\* the same and the queue mutex, for the steps outside the critical section
encFixed == <<encKept, queue_mutex>>

\* the call returns: the return value and the output flag
Return(r, rcv) ==
    /\ hpc' = "idle"
    /\ ret' = r
    /\ received' = rcv
    /\ retry' = 0

\* entry of netint_encode(frame): *received = false, then
\* ni_logan_packet_buffer_alloc for the synchronous receive
EncodeCall(f) ==
    /\ hpc = "idle"
    /\ frame' = f
    /\ received' = FALSE
    /\ submitted' = "none"
    /\ why' = "none"
    /\ xres' = <<>>
    /\ fb_frame' = IF fb_count > 0 THEN "old" ELSE fb_frame
    /\ \E ok \in BOOLEAN :
         /\ hpc' = IF ok THEN "sync_read" ELSE "pop"
         /\ mem' = IF ok THEN [mem EXCEPT !.sync_buf = BufAlloc(@)] ELSE mem
    /\ UNCHANGED <<encFixed, flushing, got_headers, extra, frame_count,
                   started, fb_count, qVars, retry, sync_pkt, ret, dev_frames,
                   dev_sos, dev_written, dev_eos, dev_emitted, dev_eos_emitted,
                   delivered, host_sdk_in_worker, err_run>>

\* a netint_encode call of a session in which the device accepts MaxFrames
\* data frames
EncodeBegin(f) ==
    /\ f = "F" => dev_frames < MaxFrames
    /\ EncodeCall(f)

\* a netint_encode call of a session in which the device accepts
\* MaxFramesInflight data frames
EncodeBeginMany(f) ==
    /\ f = "F" => dev_frames < MaxFramesInflight
    /\ EncodeCall(f)

\* ni_logan_device_session_read on the host thread; a result of at most
\* 16 bytes frees the buffer and falls through to the queue
EncSyncRead ==
    /\ hpc = "sync_read"
    /\ \E r \in ReadResults :
         /\ DeviceRead(r)
         /\ sync_pkt' = r.pkt
         /\ hpc' = IF r.rc > MetaSize THEN "sync_proc" ELSE "pop"
         /\ mem' = IF r.rc > MetaSize THEN mem
                   ELSE [mem EXCEPT !.sync_buf = BufFree(@)]
         /\ err_run' = HostRun(err_run, r.rc)
    /\ host_sdk_in_worker' = (host_sdk_in_worker \/ WorkerAlive)
    /\ UNCHANGED <<encFixed, xres, flushing, got_headers, extra, frame_count,
                   started, fb_count, fb_frame, qVars, frame, retry, ret,
                   received, dev_frames, dev_sos, dev_written, dev_eos,
                   submitted, delivered, why>>

\* the packet netint_encode hands to the host from its synchronous receive:
\* the device packet p, its bytes copied from the start of the device buffer
SyncPacket(p) == [id |-> p.id, off |-> 0]

\* the packet of the synchronous receive: the header cache when no headers
\* are cached and the payload has 65 bytes, else a packet for the host,
\* copied from the start of the device buffer, and the call returns
EncSyncProc ==
    /\ hpc = "sync_proc"
    /\ IF ~got_headers /\ sync_pkt.size = HeaderPacketSize
       THEN /\ extra' = [src |-> "pkt", id |-> sync_pkt.id, off |-> 0,
                         size |-> sync_pkt.size]
            /\ got_headers' = TRUE
            /\ hpc' = "pop"
            /\ UNCHANGED <<delivered, ret, received, retry>>
       ELSE /\ delivered' = Append(delivered, SyncPacket(sync_pkt))
            /\ Return(TRUE, TRUE)
            /\ UNCHANGED <<extra, got_headers>>
    /\ sync_pkt' = NoPkt
    /\ mem' = [mem EXCEPT !.sync_buf = BufFree(@)]
    /\ UNCHANGED <<encFixed, xres, flushing, frame_count, started, fb_count,
                   fb_frame, qVars, frame, dev_frames, dev_sos, dev_written,
                   dev_eos, dev_emitted, dev_eos_emitted, submitted,
                   host_sdk_in_worker, err_run, why>>

\* pthread_mutex_lock(&ctx->queue_mutex) of netint_encode
EncLock ==
    /\ hpc = "pop"
    /\ queue_mutex = "init"
    /\ queue_mutex' = "host"
    /\ hpc' = "popping"
    /\ UNCHANGED <<encKept, mem, xres, ctxVars, frame, retry, sync_pkt, ret,
                   received, dev_frames, dev_sos, dev_written, dev_eos,
                   dev_emitted, dev_eos_emitted, histVars>>

\* the packet netint_encode hands to the host from the queue: the bytes of
\* the device packet the receive thread copied from behind the firmware
\* metadata
QueuedPacket(id) == [id |-> id, off |-> MetaSize]

\* a removal that leaves the tail pointer as it is
TailAfterPopKept(h, t) == t

\* the tail after the head was removed and h is the new head: null when the
\* queue is empty now
TailAfterPop(h, t) == IF h = 0 THEN 0 ELSE t

\* take the head of the packet queue and unlock; a packet is handed to the
\* host and the call returns, else the frame or the flush follows
EncPop ==
    /\ hpc = "popping"
    /\ queue_mutex' = Released(queue_mutex)
    /\ IF pkt_queue_head # 0
       THEN /\ pkt_queue_head' = pkt_next[pkt_queue_head]
            /\ pkt_queue_tail' = TailAfterPop(pkt_next[pkt_queue_head],
                                              pkt_queue_tail)
            /\ pkt_next' = [pkt_next EXCEPT ![pkt_queue_head] = 0]
            /\ delivered' = Append(delivered, QueuedPacket(pkt_queue_head))
            /\ Return(TRUE, TRUE)
       ELSE /\ hpc' = IF frame = "F" THEN "batch" ELSE "flush"
            /\ UNCHANGED <<qVars, delivered, ret, received, retry>>
    /\ UNCHANGED <<encKept, mem, xres, flushing, got_headers, extra,
                   frame_count, started, fb_count, fb_frame, frame, sync_pkt,
                   dev_frames, dev_sos, dev_written, dev_eos, dev_emitted,
                   dev_eos_emitted, submitted, host_sdk_in_worker, err_run,
                   why>>

\* store the frame in the frame buffer when it has room, then the start of
\* netint_encode_batch: ni_logan_encoder_frame_buffer_alloc, which fails,
\* or leaves p_data[0] null, for which the buffer is freed, or succeeds
EncBuffer ==
    /\ hpc = "batch"
    /\ LET room == fb_count < Capacity
           cnt == IF room THEN fb_count + 1 ELSE fb_count
       IN /\ fb_count' = cnt
          /\ fb_frame' = IF room THEN "cur" ELSE fb_frame
          /\ IF room /\ cnt < Capacity
             THEN Return(TRUE, FALSE) /\ UNCHANGED <<why, mem>>
             ELSE \E res \in {"failed", "no_data", "ok"} :
                    IF res = "ok"
                    THEN /\ hpc' = "batch_write"
                         /\ retry' = 0
                         /\ mem' = [mem EXCEPT !.frame_buf = BufAlloc(@)]
                         /\ UNCHANGED <<ret, received, why>>
                    ELSE /\ Return(FALSE, FALSE)
                         /\ why' = "alloc"
                         /\ mem' = IF res = "failed" THEN mem
                                   ELSE [mem EXCEPT
                                           !.frame_buf = BufFree(BufAlloc(@))]
    /\ UNCHANGED <<encFixed, xres, flushing, got_headers, extra, frame_count,
                   started, qVars, frame, sync_pkt, dev_frames, dev_sos,
                   dev_written, dev_eos, dev_emitted, dev_eos_emitted,
                   submitted, delivered, host_sdk_in_worker, err_run>>

\* start_of_stream of the frame netint_encode_batch builds
StartOfStream(count) == IF count = 0 THEN 1 ELSE 0

\* is_keyframe, which force_key_frame and the picture type follow
ForceKeyFrame(count) == IF count = 0 THEN 1 ELSE 0

\* the metadata of the frame netint_encode_batch builds
DataFrame(count) ==
    [eos |-> 0, sos |-> StartOfStream(count), force |-> ForceKeyFrame(count),
     idr |-> ForceKeyFrame(count) = 1]

\* the metadata of the EOS frame of netint_encode_flush and netint_destroy
EosFrame == [eos |-> 1, sos |-> 0, force |-> 0, idr |-> FALSE]

\* the device side of a frame write that returned s
DeviceAccept(s) ==
    /\ dev_frames' = IF s > 0 THEN dev_frames + 1 ELSE dev_frames
    /\ dev_sos' = IF s > 0 THEN dev_sos + StartOfStream(frame_count)
                  ELSE dev_sos
    /\ dev_written' = IF s > 0
                      THEN Append(dev_written, DataFrame(frame_count))
                      ELSE dev_written
    /\ submitted' = IF fb_frame = "cur" THEN "own" ELSE "stale"
    /\ host_sdk_in_worker' = (host_sdk_in_worker \/ WorkerAlive)
    /\ err_run' = HostRun(err_run, s)

\* the write returned a positive value: what follows it is a step of its
\* own, as the device has the frame from the write on
BatchSent ==
    /\ hpc' = "batch_done"
    /\ UNCHANGED <<mem, started, frame_count, fb_count, fb_frame, ret,
                   received, retry>>

\* the frame is sent: free the frame buffer, latch started, count the frame,
\* empty the frame buffer and return true
BatchDone ==
    /\ mem' = [mem EXCEPT !.frame_buf = BufFree(@)]
    /\ started' = TRUE
    /\ frame_count' = frame_count + 1
    /\ fb_count' = 0
    /\ fb_frame' = "none"
    /\ Return(TRUE, FALSE)

\* a failure return of netint_encode_batch after a write: the SDK buffer is
\* freed, the frame buffer keeps its frame
BatchFail ==
    /\ mem' = [mem EXCEPT !.frame_buf = BufFree(@)]
    /\ Return(FALSE, FALSE)
    /\ UNCHANGED <<started, frame_count, fb_count, fb_frame>>

\* the first ni_logan_device_session_write of the frame
BatchWrite ==
    /\ hpc = "batch_write"
    /\ \E s \in WriteResults :
         /\ DeviceAccept(s)
         /\ IF s < 0 THEN BatchFail /\ why' = "write_error"
            ELSE IF s = 0
            THEN /\ hpc' = "batch_retry"
                 /\ retry' = 0
                 /\ UNCHANGED <<mem, started, frame_count, fb_count, fb_frame,
                                ret, received, why>>
            ELSE BatchSent /\ UNCHANGED why
    /\ UNCHANGED <<encFixed, xres, flushing, got_headers, extra, qVars, frame,
                   sync_pkt, dev_eos, dev_emitted, dev_eos_emitted, delivered>>

\* whether the retry loop gives up after its retry_count-th write
RetriesExhausted(count) == count >= BatchMaxRetries

\* one turn of the FIFO-full loop: sleep, write again, count the retry, give
\* up when the count reached max_retries, go round while the write returns 0
BatchRetry ==
    /\ hpc = "batch_retry"
    /\ \E s \in WriteResults :
         /\ DeviceAccept(s)
         /\ IF RetriesExhausted(retry + 1)
            THEN BatchFail /\ why' = "fifo_full"
            ELSE IF s = 0
            THEN /\ retry' = retry + 1
                 /\ UNCHANGED <<mem, hpc, started, frame_count, fb_count,
                                fb_frame, ret, received, why>>
            ELSE IF s < 0 THEN BatchFail /\ why' = "write_error"
            ELSE BatchSent /\ UNCHANGED why
    /\ UNCHANGED <<encFixed, xres, flushing, got_headers, extra, qVars, frame,
                   sync_pkt, dev_eos, dev_emitted, dev_eos_emitted, delivered>>

\* after the write that sent the frame: started, frame_count and the frame
\* buffer, and netint_encode returns true
BatchFinish ==
    /\ hpc = "batch_done"
    /\ BatchDone
    /\ UNCHANGED <<encFixed, xres, flushing, got_headers, extra, qVars, frame,
                   sync_pkt, dev_frames, dev_sos, dev_written, dev_eos,
                   dev_emitted, dev_eos_emitted, submitted, delivered,
                   host_sdk_in_worker, err_run, why>>

(* ========================= netint_encode_flush ========================= *)
\* a repeated flush that is reported as a failure
AlreadyFlushingFails == FALSE

\* what netint_encode_flush returns when the flush is already under way
AlreadyFlushing == TRUE

\* a flush that sends an EOS frame on every call
FlushSendsAlways(fl) == TRUE

\* whether netint_encode_flush sends an EOS frame
FlushSends(fl) == ~fl

\* a flush that stays marked as under way when its send failed
FlushingOnFailureKept == TRUE

\* ctx->flushing as the failure returns of netint_encode_flush leave it
FlushingOnFailure == FALSE

\* the device side of an EOS frame write that returned s
DeviceAcceptEos(s) ==
    /\ dev_eos' = IF s > 0 THEN dev_eos + 1 ELSE dev_eos
    /\ dev_written' = IF s > 0 THEN Append(dev_written, EosFrame)
                      ELSE dev_written
    /\ host_sdk_in_worker' = (host_sdk_in_worker \/ WorkerAlive)
    /\ err_run' = HostRun(err_run, s)

\* entry of netint_encode_flush: nothing to do when already flushing, else
\* flushing = true and ni_logan_encoder_frame_buffer_alloc of the EOS frame,
\* whose failure resets flushing
FlushBegin ==
    /\ hpc = "flush"
    /\ IF ~FlushSends(flushing)
       THEN Return(AlreadyFlushing, FALSE) /\ UNCHANGED <<flushing, why, mem>>
       ELSE \E ok \in BOOLEAN :
              IF ok THEN /\ flushing' = TRUE
                         /\ hpc' = "flush_write"
                         /\ retry' = 0
                         /\ mem' = [mem EXCEPT !.frame_buf = BufAlloc(@)]
                         /\ UNCHANGED <<ret, received, why>>
              ELSE /\ flushing' = FlushingOnFailure
                   /\ Return(FALSE, FALSE)
                   /\ why' = "alloc"
                   /\ UNCHANGED mem
    /\ UNCHANGED <<encFixed, xres, got_headers, extra, frame_count, started,
                   fb_count, fb_frame, qVars, frame, sync_pkt, dev_frames,
                   dev_sos, dev_written, dev_eos, dev_emitted, dev_eos_emitted,
                   submitted, delivered, host_sdk_in_worker, err_run>>

\* one turn of the send loop of the EOS frame: an error or the last FIFO-full
\* retry resets flushing and fails, a positive return ends the flush; the
\* frame buffer is freed in front of each of the three returns
FlushWrite ==
    /\ hpc = "flush_write"
    /\ \E s \in WriteResults :
         /\ DeviceAcceptEos(s)
         /\ IF s < 0
            THEN /\ flushing' = FlushingOnFailure
                 /\ Return(FALSE, FALSE)
                 /\ why' = "write_error"
            ELSE IF s = 0
            THEN IF retry + 1 >= FlushMaxRetries
                 THEN /\ flushing' = FlushingOnFailure
                      /\ Return(FALSE, FALSE)
                      /\ why' = "fifo_full"
                 ELSE /\ retry' = retry + 1
                      /\ UNCHANGED <<flushing, hpc, ret, received, why>>
            ELSE Return(TRUE, FALSE) /\ UNCHANGED <<flushing, why>>
    /\ mem' = IF hpc' = "idle" THEN [mem EXCEPT !.frame_buf = BufFree(@)]
              ELSE mem
    /\ UNCHANGED <<encFixed, xres, got_headers, extra, frame_count, started,
                   fb_count, fb_frame, qVars, frame, sync_pkt, dev_frames,
                   dev_sos, dev_emitted, dev_eos_emitted, submitted,
                   delivered>>

(* ========================= netint_get_extra_data ======================= *)
\* what netint_get_extra_data leaves alone in every step
xtrFixed == <<mem, ctxVars, frame, sync_pkt, ret, received, workerVars,
              devVars, histVars, envVars, callVars>>

\* what the call reports: the return value, the bytes handed out, the sleeps
\* it made, and got_headers as it read it last
ExtraResult(o, b, n, g) == [ok |-> o, bytes |-> b, polls |-> n, seen |-> g]

\* entry of netint_get_extra_data: with got_headers set the cache is handed
\* out, else the wait begins
GetExtraBegin ==
    /\ hpc = "idle"
    /\ hpc' = IF got_headers THEN "x_check" ELSE "x_poll"
    /\ retry' = 0
    /\ xres' = <<>>
    /\ UNCHANGED xtrFixed

\* a wait for the headers that has no limit
PollsDoneNever(count) == FALSE

\* for (int i = 0; i < 50; i++): the loop ends after its count-th sleep
PollsDone(count) == count >= MaxPolls

\* one turn of the wait: os_sleep_ms(100), then got_headers is read and ends
\* the loop when set
GetExtraPoll ==
    /\ hpc = "x_poll"
    /\ retry' = retry + 1
    /\ hpc' = IF got_headers \/ PollsDone(retry + 1) THEN "x_final"
              ELSE "x_poll"
    /\ UNCHANGED <<xtrFixed, xres>>

\* after the loop got_headers is read once more and the call fails when it is
\* clear; then the call fails on an empty cache, else it hands out the cache
GetExtraReturn ==
    /\ hpc \in {"x_final", "x_check"}
    /\ LET seen == got_headers
           ok == seen /\ extra.src # "none" /\ extra.size > 0
       IN xres' = <<ExtraResult(ok, IF ok THEN extra ELSE NoExtra, retry,
                                seen)>>
    /\ hpc' = "idle"
    /\ retry' = 0
    /\ UNCHANGED xtrFixed

GetExtra == GetExtraBegin \/ GetExtraPoll \/ GetExtraReturn

(* ============================ netint_destroy =========================== *)
\* what netint_destroy leaves alone in every step
dstFixed == <<got_headers, frame_count, started, fb_count, fb_frame,
              frame, sync_pkt, ret, received, workerVars, dev_frames, dev_sos,
              dev_emitted, dev_eos_emitted, submitted, delivered,
              reads_after_stop, discarded, why, envVars>>

\* whether netint_destroy sends an EOS frame: not flushing and a session
\* context exists
DestroySends(fl, ctxp) == ~fl /\ ctxp

\* entry of netint_destroy, called by the host on a session or by
\* netint_create on its failure paths: the EOS frame is allocated when one
\* is to be sent
DestroyBegin ==
    /\ hpc \in {"idle", "c_fail"}
    /\ IF DestroySends(flushing, p_session_ctx)
       THEN /\ CallCanRun("core")
            /\ \E ok \in BOOLEAN : hpc' = IF ok THEN "d_write" ELSE "d_stop"
       ELSE hpc' = "d_stop"
    /\ mem' = IF hpc' = "d_write"
              THEN [mem EXCEPT !.frame_buf = BufAlloc(@)] ELSE mem
    /\ retry' = 0
    /\ xres' = <<>>
    /\ UNCHANGED <<dev_written, dstFixed, extra, flushing, encoder_eof,
                   stop_thread, thread_created, qVars, dev_eos, session_open,
                   host_sdk_in_worker, err_run, callVars>>

\* one turn of the send loop of the EOS frame in netint_destroy; when the
\* loop ends without a frame sent the frame buffer is freed
DestroyWrite ==
    /\ hpc = "d_write"
    /\ \E s \in WriteResults :
         /\ DeviceAcceptEos(s)
         /\ IF s < 0
            THEN hpc' = "d_stop" /\ retry' = 0 /\ UNCHANGED flushing
            ELSE IF s = 0
            THEN /\ IF retry + 1 >= DestroyMaxRetries
                    THEN hpc' = "d_stop" /\ retry' = 0
                    ELSE hpc' = "d_write" /\ retry' = retry + 1
                 /\ UNCHANGED flushing
            ELSE /\ flushing' = TRUE
                 /\ retry' = 0
                 /\ hpc' = "d_wait"
    /\ mem' = IF hpc' = "d_stop" THEN [mem EXCEPT !.frame_buf = BufFree(@)]
              ELSE mem
    /\ UNCHANGED <<dstFixed, xres, extra, encoder_eof, stop_thread,
                   thread_created, qVars, session_open, callVars>>

\* a wait for encoder_eof that has no limit
WaitGoesOnUnbounded(eof, count) == ~eof

\* the condition of the wait loop: no encoder_eof yet and fewer than
\* max_wait_ms / sleep_ms polls done
WaitGoesOn(eof, count) == ~eof /\ count < DestroyMaxWait

\* one turn of the wait for encoder_eof, then the frame buffer is freed
DestroyWait ==
    /\ hpc = "d_wait"
    /\ IF WaitGoesOn(encoder_eof, retry)
       THEN retry' = retry + 1 /\ UNCHANGED hpc
       ELSE hpc' = "d_stop" /\ retry' = 0
    /\ mem' = IF hpc' = "d_stop" THEN [mem EXCEPT !.frame_buf = BufFree(@)]
              ELSE mem
    /\ UNCHANGED <<dev_written, dstFixed, xres, extra, flushing, encoder_eof,
                   stop_thread, thread_created, qVars, dev_eos, session_open,
                   host_sdk_in_worker, err_run, callVars>>

\* a teardown that takes the thread for not created
HasThreadNever(tc) == FALSE

\* if (ctx->thread_created)
HasThread(tc) == tc

\* if (ctx->thread_created) ctx->stop_thread = true
DestroyStop ==
    /\ hpc = "d_stop"
    /\ IF HasThread(thread_created)
       THEN stop_thread' = TRUE /\ hpc' = "d_join"
       ELSE UNCHANGED stop_thread /\ hpc' = "d_free"
    /\ UNCHANGED <<dev_written, mem, dstFixed, xres, extra, flushing,
                   encoder_eof, thread_created, qVars, retry, dev_eos,
                   session_open, host_sdk_in_worker, err_run, callVars>>

\* a join that does not wait for the thread
JoinedNoWait(w) == TRUE

\* pthread_join returns when the receive thread has returned
Joined(w) == w = "exited"

\* pthread_join(ctx->recv_thread); ctx->thread_created = false
DestroyJoin ==
    /\ hpc = "d_join"
    /\ Joined(wpc)
    /\ thread_created' = FALSE
    /\ hpc' = "d_free"
    /\ UNCHANGED <<dev_written, mem, dstFixed, xres, extra, flushing,
                   encoder_eof, stop_thread, qVars, retry, dev_eos,
                   session_open, host_sdk_in_worker, err_run, callVars>>

\* free the queued packets, their data and their struct, from the head on,
\* clear head and tail, and destroy queue_mutex
DestroyFree ==
    /\ hpc = "d_free"
    /\ mem' = [mem EXCEPT !.freed = @ \o queue]
    /\ pkt_queue_head' = 0
    /\ pkt_queue_tail' = 0
    /\ pkt_next' = NoLinks
    /\ queue_mutex' = "destroyed"
    /\ hpc' = "d_close"
    /\ UNCHANGED <<dev_written, dstFixed, xres, extra, flushing, encoder_eof,
                   stop_thread, thread_created, retry, dev_eos, session_open,
                   host_sdk_in_worker, err_run, creating, create_ret>>

\* ni_logan_encode_close when a session context exists and the pointer is
\* set, then the frees, the header cache and the context among them; a
\* netint_create that got here returns NULL
DestroyClose ==
    /\ hpc = "d_close"
    /\ session_open' = IF p_session_ctx /\ CallCanRun("core")
                       THEN FALSE ELSE session_open
    /\ extra' = NoExtra
    /\ IF creating
       THEN /\ hpc' = "no_ctx"
            /\ creating' = FALSE
            /\ create_ret' = "null"
       ELSE /\ hpc' = "destroyed"
            /\ UNCHANGED <<creating, create_ret>>
    /\ UNCHANGED <<dev_written, mem, dstFixed, xres, flushing, encoder_eof,
                   stop_thread, thread_created, qVars, retry, dev_eos,
                   host_sdk_in_worker, err_run, queue_mutex>>

(* ============================ netint_create ============================ *)
\* an SDK call netint_create made: the function, whether it returned
\* success, and a detail: for the parameter setter the name of the
\* parameter, for the init what it left in the three internal pointers
Call(f, a, o) == [fn |-> f, arg |-> a, ok |-> o]

\* the names netint_create hands to ni_logan_encoder_params_set_value, in
\* the order of its calls; the last only when the profile string is known
ParamNames == <<"gopPresetIdx", "RcEnable", "bitrate", "frameRate",
                "frameRateDenom", "RcInitDelay", "cbr", "profile">>

\* device discovery of netint_create without a device name in the settings:
\* no call, a failing ni_logan_rsrc_init, or ni_logan_rsrc_init and
\* ni_logan_rsrc_get_local_device_list
Discovery ==
    {<<>>, <<Call("rsrc_init", "", FALSE)>>,
     <<Call("rsrc_init", "", TRUE), Call("rsrc_list", "", TRUE)>>}

\* obs_module_load: one attempt to load the library, then the encoders are
\* registered whatever the outcome
ModuleLoad ==
    /\ hpc = "boot"
    /\ LoaderInit
    /\ hpc' = "no_ctx"
    /\ UNCHANGED <<mem, ctxVars, frame, retry, sync_pkt, ret, received, xres,
                   workerVars,
                   devVars, histVars, consecutive_errors, total_errors, lib,
                   sdk_log, p_session_ctx, settings, applied, callVars>>

\* the context bzalloc returns and the first assignments of netint_create,
\* in front of a device session that does not exist yet
FreshContext ==
    /\ flushing' = FALSE
    /\ got_headers' = FALSE
    /\ extra' = NoExtra
    /\ encoder_eof' = FALSE
    /\ stop_thread' = FALSE
    /\ thread_created' = FALSE
    /\ frame_count' = 0
    /\ started' = FALSE
    /\ fb_count' = 0
    /\ fb_frame' = "none"
    /\ pkt_queue_head' = 0
    /\ pkt_queue_tail' = 0
    /\ pkt_next' = NoLinks
    /\ consecutive_errors' = 0
    /\ total_errors' = 0
    /\ p_session_ctx' = FALSE
    /\ queue_mutex' = "uninit"
    /\ frame' = "none"
    /\ retry' = 0
    /\ sync_pkt' = NoPkt
    /\ ret' = TRUE
    /\ received' = FALSE
    /\ xres' = <<>>
    /\ dev_frames' = 0
    /\ dev_sos' = 0
    /\ dev_written' = <<>>
    /\ dev_eos' = 0
    /\ dev_emitted' = 0
    /\ dev_eos_emitted' = FALSE
    /\ session_open' = FALSE
    /\ submitted' = "none"
    /\ delivered' = <<>>
    /\ host_sdk_in_worker' = FALSE
    /\ reads_after_stop' = 0
    /\ discarded' = FALSE
    /\ err_run' = 0
    /\ why' = "none"
    /\ mem' = NoMem

\* entry of netint_create: the library is loaded when p_ni_logan_encode_init
\* is null, and NULL is returned when that fails; else the context is
\* allocated and filled from the settings, with device discovery when the
\* settings name no device and the discovery pointers are set
CreateBegin ==
    /\ hpc = "no_ctx"
    /\ IF "init" \in resolved
       THEN UNCHANGED <<s_lib_handle, resolved, first_open, reopened>>
       ELSE LoaderInit
    /\ IF "init" \notin resolved /\ ~s_lib_handle'
       THEN /\ create_ret' = "null"
            /\ sdk_log' = <<>>
            /\ UNCHANGED <<mem, ctxVars, hostVars, devVars, histVars,
                           consecutive_errors, total_errors, p_session_ctx,
                           creating, queue_mutex>>
       ELSE /\ FreshContext
            /\ creating' = TRUE
            /\ create_ret' = "none"
            /\ \E disc \in (IF {"rsrc_init", "rsrc_list"} \subseteq resolved'
                            THEN Discovery ELSE {<<>>}) : sdk_log' = disc
            /\ hpc' = "c_init"
    /\ UNCHANGED <<workerVars, lib, settings, applied>>

\* what netint_create leaves alone from ni_logan_encode_init to the mutex
crtFixed == <<mem, flushing, encoder_eof, stop_thread, thread_created,
              frame_count, started, fb_count, fb_frame, qVars,
              consecutive_errors, total_errors, frame, retry, sync_pkt, ret,
              received, xres, recv_size, ni_pkt, dev_frames, dev_sos,
              dev_written, dev_eos, dev_emitted, dev_eos_emitted, histVars,
              lib, s_lib_handle, resolved, first_open, reopened, settings,
              applied, creating, create_ret>>

\* an init whose internal pointers are not looked at
InternalsUnchecked(sess, rest) == TRUE

\* the test of p_session_ctx, p_encoder_params and input_data_fifo after a
\* successful ni_logan_encode_init
InternalsOk(sess, rest) == sess /\ rest

\* ni_logan_encode_init: a negative return fails the create, and so does a
\* success that left one of the three internal pointers null
CreateInit ==
    /\ hpc = "c_init"
    /\ CallCanRun("init")
    /\ \E rc \in {-1, 0}, sess \in BOOLEAN, rest \in BOOLEAN :
         /\ p_session_ctx' = sess
         /\ sdk_log' = Append(sdk_log,
                Call("init", IF sess /\ rest THEN "internals" ELSE "a_null",
                     rc >= 0))
         /\ hpc' = IF rc < 0 THEN "c_fail"
                   ELSE IF InternalsOk(sess, rest) THEN "c_vui" ELSE "c_fail"
    /\ UNCHANGED <<crtFixed, got_headers, extra, session_open, wpc,
                   queue_mutex>>

\* ni_logan_set_vui
CreateVui ==
    /\ hpc = "c_vui"
    /\ CallCanRun("vui")
    /\ sdk_log' = Append(sdk_log, Call("set_vui", "", TRUE))
    /\ hpc' = "c_params"
    /\ UNCHANGED <<crtFixed, got_headers, extra, session_open, wpc,
                   queue_mutex, p_session_ctx>>

\* the ni_logan_encoder_params_set_value calls, made when the pointer is
\* set; none of their return values is tested
CreateParams ==
    /\ hpc = "c_params"
    /\ IF CallCanRun("set_value")
       THEN \E st \in Settings, bad \in 0..Len(ParamNames) :
              LET sets == ParamSets(st)
              IN sdk_log' = sdk_log \o
                     [i \in 1..Len(sets) |->
                          Call("set_value", sets[i].name, i # bad)]
       ELSE UNCHANGED sdk_log
    /\ hpc' = "c_parse"
    /\ UNCHANGED <<crtFixed, got_headers, extra, session_open, wpc,
                   queue_mutex, p_session_ctx>>

\* a parse whose failure is not looked at
ParseNeverFatal(rc) == FALSE

\* if (parse_ret < 0) goto fail
ParseFatal(rc) == rc < 0

\* ni_logan_encode_params_parse, then the header cache is filled from the
\* extradata the parse produced, if any
CreateParse ==
    /\ hpc = "c_parse"
    /\ CallCanRun("parse")
    /\ \E rc \in {-1, 0}, hdrs \in BOOLEAN :
         /\ sdk_log' = Append(sdk_log, Call("parse", "", rc >= 0))
         /\ IF ParseFatal(rc)
            THEN hpc' = "c_fail" /\ UNCHANGED <<got_headers, extra>>
            ELSE /\ hpc' = "c_open"
                 /\ got_headers' = hdrs
                 /\ extra' = IF hdrs THEN ParseExtra ELSE NoExtra
    /\ UNCHANGED <<crtFixed, session_open, wpc, queue_mutex, p_session_ctx>>

\* ni_logan_encode_open: anything but NI_LOGAN_RETCODE_SUCCESS fails the
\* create
CreateOpen ==
    /\ hpc = "c_open"
    /\ CallCanRun("core")
    /\ \E rc \in {-1, 0} :
         /\ sdk_log' = Append(sdk_log, Call("open", "", rc = 0))
         /\ session_open' = (rc = 0)
         /\ hpc' = IF rc = 0 THEN "c_mutex" ELSE "c_fail"
    /\ UNCHANGED <<crtFixed, got_headers, extra, wpc, queue_mutex,
                   p_session_ctx>>

\* pthread_mutex_init of queue_mutex
CreateMutex ==
    /\ hpc = "c_mutex"
    /\ \E ok \in BOOLEAN :
         /\ queue_mutex' = IF ok THEN "init" ELSE queue_mutex
         /\ hpc' = IF ok THEN "c_thread" ELSE "c_fail"
    /\ UNCHANGED <<crtFixed, got_headers, extra, session_open, wpc, sdk_log,
                   p_session_ctx>>

\* a thread that is taken for started whatever pthread_create returned
ThreadStartedAlways(rc) == TRUE

\* pthread_create(...) returned 0
ThreadStarted(rc) == rc = 0

\* pthread_create of the receive thread; on failure the mutex is destroyed
\* and netint_destroy follows
CreateThread ==
    /\ hpc = "c_thread"
    /\ \E rc \in {0, 1} :
         /\ wpc' = IF rc = 0 THEN "start" ELSE wpc
         /\ IF ThreadStarted(rc)
            THEN hpc' = "c_done" /\ UNCHANGED queue_mutex
            ELSE hpc' = "c_fail" /\ queue_mutex' = "destroyed"
    /\ UNCHANGED <<crtFixed, got_headers, extra, session_open, sdk_log,
                   p_session_ctx>>

\* ctx->thread_created = true; return ctx
CreateReturn ==
    /\ hpc = "c_done"
    /\ thread_created' = TRUE
    /\ creating' = FALSE
    /\ create_ret' = "ctx"
    /\ sdk_log' = <<>>
    /\ hpc' = "idle"
    /\ UNCHANGED <<mem, flushing, got_headers, extra, encoder_eof, stop_thread,
                   frame_count, started, fb_count, fb_frame, qVars,
                   consecutive_errors, total_errors, p_session_ctx,
                   queue_mutex, frame, retry, sync_pkt, ret, received, xres,
                   workerVars, devVars, histVars, lib, s_lib_handle,
                   resolved, first_open, reopened, settings, applied>>

\* a call through a null pointer, or through a pointer into the closed
\* library that does not happen to work, ends the process: in device
\* discovery, at ni_logan_encode_init, at ni_logan_set_vui, and in
\* netint_destroy at the EOS frame and at ni_logan_encode_close
SdkCrash ==
    /\ \/ /\ hpc = "no_ctx"
          /\ {"init", "rsrc_init", "rsrc_list"} \subseteq resolved
          /\ CallCanCrash("rsrc_init")
       \/ hpc = "c_init" /\ CallCanCrash("init")
       \/ hpc = "c_vui" /\ CallCanCrash("vui")
       \/ hpc = "c_fail" /\ DestroySends(flushing, p_session_ctx)
                         /\ CallCanCrash("core")
       \/ hpc = "d_write" /\ CallCanCrash("core")
       \/ hpc = "d_close" /\ p_session_ctx /\ CallCanRun("core")
                          /\ CallCanCrash("core")
    /\ hpc' = "crashed"
    /\ UNCHANGED <<mem, ctxVars, frame, retry, sync_pkt, ret, received, xres,
                   workerVars, devVars, histVars, envVars, callVars>>

Create == CreateBegin \/ CreateInit \/ CreateVui \/ CreateParams
          \/ CreateParse \/ CreateOpen \/ CreateMutex \/ CreateThread
          \/ CreateReturn

\* the steps of a netint_encode call after its entry
EncodeSteps == EncSyncRead \/ EncSyncProc \/ EncLock \/ EncPop \/ EncBuffer
               \/ BatchWrite \/ BatchRetry \/ BatchFinish \/ FlushBegin
               \/ FlushWrite

Encode == (\E f \in {"F", "NULL"} : EncodeBegin(f)) \/ EncodeSteps

EncodeMany == (\E f \in {"F", "NULL"} : EncodeBeginMany(f)) \/ EncodeSteps

Destroy == DestroyBegin \/ DestroyWrite \/ DestroyWait \/ DestroyStop
           \/ DestroyJoin \/ DestroyFree \/ DestroyClose

Next == Worker \/ Encode \/ GetExtra \/ Destroy

Spec == Init /\ [][Next]_vars

(* ---- a session that is only encoded on ---------------------------------- *)
NextInflight == Worker \/ EncodeMany

SpecInflight == Init /\ [][NextInflight]_vars

(* ---- from the load of the plugin on ------------------------------------ *)
\* no library handle and no pointer set
NoLibrary ==
    /\ s_lib_handle = FALSE
    /\ resolved = {}
    /\ first_open = <<>>
    /\ reopened = FALSE

\* no encoder context
NoContext ==
    /\ creating = FALSE
    /\ create_ret = "none"
    /\ sdk_log = <<>>
    /\ wpc = "unborn"
    /\ recv_size = 0
    /\ ni_pkt = NoPkt
    /\ flushing = FALSE
    /\ got_headers = FALSE
    /\ extra = NoExtra
    /\ encoder_eof = FALSE
    /\ stop_thread = FALSE
    /\ thread_created = FALSE
    /\ frame_count = 0
    /\ started = FALSE
    /\ fb_count = 0
    /\ fb_frame = "none"
    /\ pkt_queue_head = 0
    /\ pkt_queue_tail = 0
    /\ pkt_next = NoLinks
    /\ consecutive_errors = 0
    /\ total_errors = 0
    /\ p_session_ctx = FALSE
    /\ queue_mutex = "uninit"
    /\ frame = "none"
    /\ retry = 0
    /\ sync_pkt = NoPkt
    /\ ret = TRUE
    /\ received = FALSE
    /\ xres = <<>>
    /\ dev_frames = 0
    /\ dev_sos = 0
    /\ dev_written = <<>>
    /\ dev_eos = 0
    /\ dev_emitted = 0
    /\ dev_eos_emitted = FALSE
    /\ session_open = FALSE
    /\ submitted = "none"
    /\ delivered = <<>>
    /\ host_sdk_in_worker = FALSE
    /\ reads_after_stop = 0
    /\ discarded = FALSE
    /\ err_run = 0
    /\ why = "none"
    /\ mem = NoMem

\* no library handle, no pointer set, no encoder context
NoSession ==
    /\ NoLibrary
    /\ NoContext
    /\ settings = DefaultSettings
    /\ applied = NotApplied

\* the state before obs_module_load
InitCreate ==
    /\ hpc = "boot"
    /\ lib \in LibKinds
    /\ NoSession

NextCreate == ModuleLoad \/ Create \/ SdkCrash \/ Worker \/ Encode
              \/ GetExtra \/ Destroy

SpecCreate == InitCreate /\ [][NextCreate]_vars

(* ---- the loader on its own --------------------------------------------- *)
\* the library files of the loader runs: none, or one that lacks at most
\* MaxMissing of the symbols
LibFiles ==
    {Absent}
    \cup {LibFile(TRUE, Symbols \ m) :
              m \in {x \in SUBSET Symbols : Cardinality(x) <= MaxMissing}}

\* what the loader leaves alone
ldrFixed == <<mem, ctxVars, hostVars, workerVars, devVars, histVars,
              consecutive_errors, total_errors, sdk_log, p_session_ctx,
              settings, applied, callVars>>

\* netint_loader_init: ni_libxcoder_open
LoaderOpen ==
    /\ hpc = "loader"
    /\ LoaderInit
    /\ UNCHANGED <<ldrFixed, lib>>

\* netint_loader_deinit: ni_libxcoder_close drops the handle, if any, and
\* leaves the pointers as they are
LoaderClose ==
    /\ hpc = "loader"
    /\ s_lib_handle' = FALSE
    /\ UNCHANGED <<ldrFixed, lib, resolved, first_open, reopened>>

\* while the library is not loaded the file on disk is replaced, installed
\* or removed
ReplaceLib ==
    /\ hpc = "loader"
    /\ ~s_lib_handle
    /\ lib' \in LibFiles \ {lib}
    /\ UNCHANGED <<ldrFixed, s_lib_handle, resolved, first_open, reopened>>

InitLoader ==
    /\ hpc = "loader"
    /\ lib \in LibFiles
    /\ NoSession

NextLoader == LoaderOpen \/ LoaderClose \/ ReplaceLib

SpecLoader == InitLoader /\ [][NextLoader]_vars

(* ---- the parameter block of netint_create on its own ------------------- *)
\* the settings are read, keyint_frames is computed, and the parameters are
\* set when the setter pointer is there
SetParams ==
    /\ hpc = "params"
    /\ applied' = [done |-> TRUE,
                   keyint_frames |-> KeyintFrames(settings),
                   sets |-> IF CallCanRun("set_value")
                            THEN ParamSets(settings) ELSE <<>>]
    /\ hpc' = "params_done"
    /\ UNCHANGED <<mem, ctxVars, frame, retry, sync_pkt, ret, received, xres,
                   workerVars, devVars, histVars, consecutive_errors,
                   total_errors, sdk_log, p_session_ctx, callVars, lib,
                   s_lib_handle, resolved, first_open, reopened, settings>>

\* a netint_create with any settings, on a library that is loaded, with or
\* without the setter
InitParams ==
    /\ NoContext
    /\ reopened = FALSE
    /\ hpc = "params"
    /\ settings \in Settings
    /\ applied = NotApplied
    /\ lib \in {LibFile(TRUE, Symbols), LibFile(TRUE, Symbols \ {"set_value"})}
    /\ s_lib_handle = TRUE
    /\ resolved = Resolves(lib)
    /\ first_open = <<[lib |-> lib, table |-> resolved]>>

NextParams == SetParams

SpecParams == InitParams /\ [][NextParams]_vars

(* ============================== properties ============================= *)

\* C1: every netint_encode call with a frame that returns true has written
\* a frame to the device before it returns, also when the call hands a
\* packet to the host.
C1_FrameSubmitted ==
    (hpc = "idle" /\ frame = "F" /\ ret) => submitted # "none"

\* C2: over the whole session at most one EOS frame is accepted by the
\* device, and once one was accepted flushing stays set, so neither a later
\* flush nor destroy sends another.
C2_AtMostOneEos ==
    /\ dev_eos <= 1
    /\ dev_eos = 1 => flushing

\* a session that was flushed, or destroyed without a flush, and is closed
C2_Witness == hpc = "destroyed" /\ dev_eos = 1 /\ dev_frames > 0

\* C3: exactly one data frame the device accepted carries start_of_stream=1
\* (the first one), whatever sends failed or were retried before.
C3_OneStartOfStream ==
    /\ dev_sos <= 1
    /\ dev_frames > 0 => dev_sos = 1

\* C4: once the end-of-stream packet has been read from the device, no other
\* packet is added to the packet queue.
C4_NoEnqueueAfterEos ==
    [][(dev_eos_emitted /\ Len(queue') > Len(queue))
         => queue'[Len(queue')] = dev_emitted]_vars

\* C5: the host receives the packets in the order the device emitted them.
C5_DeliveredInOrder ==
    \A i, j \in 1..Len(delivered) :
        i < j => delivered[i].id < delivered[j].id

C7_HeaderCacheStable ==
    [][(got_headers /\ hpc' # "destroyed") => extra' = extra]_vars

\* C8: while the host drains with encode(null), once the device's
\* end-of-stream packet has been taken from the device, the encode call has
\* returned and the receive thread is past its end_of_stream test,
\* encoder_eof is set; nothing sets it later, as the device emits no second
\* end-of-stream packet.
C8_EofOnceEosTaken ==
    (/\ dev_eos_emitted
     /\ frame = "NULL"
     /\ hpc = "idle"
     /\ ~(wpc = "after_read" /\ ni_pkt.eos))
    => encoder_eof

\* C9: after the stop flag is raised at most one more receive call of the
\* receive thread returns.
C9_AtMostOneReadAfterStop == reads_after_stop <= 1

\* destroy completed and the thread had one receive return after the stop
C9_Witness == hpc = "destroyed" /\ reads_after_stop = 1

\* C10: a packet the receive thread read before the stop flag was raised is
\* never dropped at shutdown.
C10_NoPacketDiscarded == ~discarded

\* C11: netint_destroy raises the stop flag before it joins, and frees the
\* queue, destroys the queue mutex and closes the session only when the
\* receive thread has been joined; none of the three happens while the
\* thread can still run.
C11_TeardownOrder ==
    /\ hpc = "d_join" => stop_thread
    /\ hpc \in {"d_free", "d_close", "destroyed"}
         => (~WorkerAlive /\ ~thread_created)
    /\ hpc \in {"d_close", "destroyed"}
         => (queue = <<>> /\ queue_mutex = "destroyed")
    /\ queue_mutex = "destroyed" => ~WorkerAlive
    /\ ~session_open => (queue_mutex = "destroyed" /\ ~WorkerAlive)

\* the thread is joined and destroy is about to free a queue with packets
C11_Witness ==
    hpc = "d_free" /\ queue # <<>> /\ stop_thread /\ wpc = "exited"

\* C12: the send loop of the EOS frame and the wait for encoder_eof in
\* netint_destroy are bounded by their limits, and every destroy that ends,
\* also after a failed EOS write or a wait that timed out, has joined the
\* receive thread and closed the session.
C12_DestroyBounded ==
    /\ hpc = "d_write" => retry < DestroyMaxRetries
    /\ hpc = "d_wait" => retry <= DestroyMaxWait
    /\ hpc = "destroyed"
         => (~session_open /\ ~thread_created /\ wpc = "exited")

\* the wait for encoder_eof used up all its polls and destroy went on
C12_Witness ==
    hpc = "d_wait" /\ retry = DestroyMaxWait /\ ~encoder_eof /\ flushing

\* C13: once MAX_CONSECUTIVE_ERRORS device calls in a row have returned a
\* negative value the session has failed, and an encode call made then
\* returns at once, without a call into the SDK.
C13_FailedLatch ==
    [][~(/\ err_run >= MAX_CONSECUTIVE_ERRORS
         /\ hpc = "idle"
         /\ hpc' \in {"sync_read", "pop"})]_vars

\* C14: every device read or write that returns a negative value is counted
\* in consecutive_errors and in total_errors.
C14_ErrorsCounted ==
    /\ consecutive_errors >= err_run
    /\ total_errors >= err_run

C16_CreateResult ==
    /\ (create_ret = "ctx"
        /\ hpc \notin {"d_write", "d_wait", "d_stop", "d_join", "d_free",
                       "d_close", "destroyed"})
         => (/\ thread_created
             /\ wpc # "unborn"
             /\ consecutive_errors < MAX_CONSECUTIVE_ERRORS)
    /\ create_ret = "null" => (~WorkerAlive /\ ~thread_created)

\* netint_create has just returned a session whose thread runs
C16_Witness ==
    create_ret = "ctx" /\ hpc = "idle" /\ frame = "none" /\ WorkerAlive

\* C17: after an ni_logan_encode_init that returned success and left one of
\* the three internal pointers null, netint_create makes no further SDK call
\* of its sequence, opens no session and starts no thread.
C17_NullInternalsFatal ==
    \A i \in DOMAIN sdk_log :
        (sdk_log[i].fn = "init" /\ sdk_log[i].ok /\ sdk_log[i].arg = "a_null")
        => (i = Len(sdk_log) /\ ~session_open /\ wpc = "unborn")

\* netint_create returned NULL after such an init
C17_Witness ==
    /\ create_ret = "null"
    /\ sdk_log # <<>>
    /\ sdk_log[Len(sdk_log)] = Call("init", "a_null", TRUE)

\* the place of an SDK call in the sequence of netint_create; 0 for the
\* calls of device discovery, which are not part of it
Rank(f) ==
    CASE f = "init" -> 1
      [] f = "set_vui" -> 2
      [] f = "set_value" -> 3
      [] f = "parse" -> 4
      [] f = "open" -> 5
      [] OTHER -> 0

\* C18: the SDK calls of netint_create come in the order init, VUI set,
\* parameter sets, parse, open; nothing of it follows a failed init, parse or
\* open; and the receive thread runs only after a successful open.
C18_CreateOrder ==
    /\ \A i, j \in DOMAIN sdk_log :
         (i < j /\ Rank(sdk_log[i].fn) > 0)
         => /\ Rank(sdk_log[i].fn) <= Rank(sdk_log[j].fn)
            /\ Rank(sdk_log[i].fn) = Rank(sdk_log[j].fn)
                 => sdk_log[i].fn = "set_value"
            /\ sdk_log[i].fn \in {"init", "parse", "open"} => sdk_log[i].ok
    /\ (creating /\ wpc # "unborn")
         => (sdk_log # <<>> /\ sdk_log[Len(sdk_log)] = Call("open", "", TRUE))

\* the thread runs at the end of a create that made all its calls
C18_Witness ==
    hpc = "c_done" /\ WorkerAlive /\ Len(sdk_log) >= 4 + Len(ParamNames)

\* C19: when one of the parameter set calls of netint_create has returned a
\* failure, no session is opened and no receive thread is started.
C19_SetCallsMustSucceed ==
    (\E i \in DOMAIN sdk_log : sdk_log[i].fn = "set_value" /\ ~sdk_log[i].ok)
    => (~session_open /\ wpc = "unborn")

\* C20: with a vendor library that cannot be loaded completely, no create
\* call makes an SDK call, opens a session or starts a receive thread.
C20_UnusableLibNoCreate ==
    ~Loads(lib) => (sdk_log = <<>> /\ ~session_open /\ wpc = "unborn")

C22_ReopenSameTable ==
    [][(/\ first_open # <<>>
        /\ ~s_lib_handle
        /\ lib = first_open[1].lib
        /\ lib' = lib)
       => (s_lib_handle' /\ resolved' = first_open[1].table)]_vars

\* the library is open again, on the file of the first open, which lacks an
\* optional symbol
C22_Witness ==
    /\ s_lib_handle
    /\ reopened
    /\ lib = first_open[1].lib
    /\ resolved = first_open[1].table
    /\ "rsrc_init" \notin resolved

\* C23: netint_get_extra_data sleeps at most MaxPolls times; it returns the
\* header cache, which is not empty, when it read got_headers set, and it
\* fails only when got_headers was still clear after the last sleep.
C23_BoundedPoll ==
    /\ hpc = "x_poll" => retry < MaxPolls
    /\ \A i \in DOMAIN xres :
         /\ xres[i].polls <= MaxPolls
         /\ xres[i].ok => (xres[i].seen /\ xres[i].bytes.size > 0)
         /\ ~xres[i].ok => (~xres[i].seen /\ xres[i].polls = MaxPolls)

\* the call waited and returned the headers the receive thread took from a
\* packet meanwhile
C23_Witness ==
    /\ xres # <<>>
    /\ xres[1].ok
    /\ xres[1].polls >= 1
    /\ xres[1].bytes.src = "pkt"

\* C24: no device read, by either thread, returns a packet while started is
\* still 0.
C24_StartedBeforeReceive ==
    [][dev_emitted' > dev_emitted => started]_vars

\* C25: between two netint_encode calls the frames the device has accepted
\* and not yet answered with a packet are at most 4.
C25_InflightBounded ==
    hpc = "idle" => dev_frames - dev_emitted <= 4

\* C26: the queue mutex is held by a thread only between its lock and its
\* unlock around the queue, where no SDK call is made: not while the receive
\* thread reads from the device, and not while the host thread reads, writes
\* or closes.
C26_NoSdkCallUnderMutex ==
    /\ queue_mutex = "worker" => wpc = "locked"
    /\ queue_mutex = "host" => hpc = "popping"
    /\ wpc \in {"start", "read"} => queue_mutex # "worker"
    /\ hpc \in {"sync_read", "batch_write", "batch_retry", "flush_write",
                "d_write", "d_close"} => queue_mutex # "host"

\* netint_encode is at its lock while the receive thread holds the mutex
C26_Witness ==
    queue_mutex = "worker" /\ hpc = "pop" /\ wpc = "locked" /\ frame = "F"

\* whether the parameter block handed the value v for the name n to the SDK
Has(n, v) == \E i \in DOMAIN applied.sets : applied.sets[i] = SetValue(n, v)

\* whether the parameter block set the name n at all
Sets(n) == \E i \in DOMAIN applied.sets : applied.sets[i].name = n

C29_KeyintPassed ==
    (applied.done /\ CallCanRun("set_value"))
    => /\ settings.keyint > 0
          => applied.keyint_frames
               = (settings.keyint * settings.fps[1]) \div settings.fps[2]
       /\ \E i \in DOMAIN applied.sets :
            /\ applied.sets[i].name
                 \notin {"gopPresetIdx", "RcEnable", "bitrate", "frameRate",
                         "frameRateDenom", "RcInitDelay", "cbr", "profile"}
            /\ applied.sets[i].value = ToString(applied.keyint_frames)

\* C30: between two netint_encode calls the frame buffer is empty, and the
\* frame a call writes to the device is the frame of that call.
C30_OwnFrameWritten ==
    /\ hpc = "idle" => fb_count = 0
    /\ submitted # "stale"

\* C31: a netint_encode call with a frame returns true exactly when the
\* device accepted the frame in that call, a write that succeeds on the last
\* permitted retry included, and between two calls frame_count is the number
\* of data frames the device accepted.
C31_TrueIffAccepted ==
    /\ [](hpc = "idle" => frame_count = dev_frames)
    /\ [][(/\ frame = "F"
           /\ hpc \in {"sync_proc", "popping", "batch", "batch_write",
                       "batch_retry", "batch_done"}
           /\ hpc' = "idle")
          => (ret' <=> (hpc = "batch_done" \/ dev_frames' > dev_frames))]_vars

\* C32: the packet queue is well formed in every state: head is null
\* exactly when tail is null, the tail is the last packet of the list and
\* has no successor, no packet was enqueued twice, and the packets enqueued
\* are, in their order, those handed to the host from the queue, then those
\* in the queue, then those netint_destroy freed; so each is handed over or
\* freed once, not both, and after destroy none is left.
C32_QueueWellFormed ==
    LET Enqueued(id) == \E i \in DOMAIN mem.enqueued : mem.enqueued[i] = id
        taken == [i \in DOMAIN delivered |-> delivered[i].id]
    IN /\ (pkt_queue_head = 0) <=> (pkt_queue_tail = 0)
       /\ pkt_queue_tail # 0
            => (queue[Len(queue)] = pkt_queue_tail
                /\ pkt_next[pkt_queue_tail] = 0)
       /\ \A i, j \in DOMAIN mem.enqueued :
              mem.enqueued[i] = mem.enqueued[j] => i = j
       /\ mem.enqueued
            = SelectSeq(taken, Enqueued) \o queue \o mem.freed
       /\ hpc \in {"d_close", "destroyed"} => queue = <<>>

\* of two packets enqueued the host took one from the queue and destroy
\* freed the other
C32_Witness ==
    /\ hpc = "destroyed"
    /\ Len(mem.enqueued) = 2
    /\ Len(mem.freed) = 1
    /\ Len(delivered) = 1
    /\ delivered[1].id = mem.enqueued[1]

\* C33: while the stop flag is clear the receive thread leaves its loop only
\* after a receive that returned a negative value with encoder_eof set;
\* after a negative return with encoder_eof clear, or a return without a
\* packet, it goes round the loop again.
C33_WorkerExitOnlyOnEof ==
    [][(WorkerAlive /\ wpc # "start" /\ ~stop_thread)
       => /\ wpc' = "exited"
               => (wpc = "after_read" /\ recv_size < 0 /\ encoder_eof)
          /\ (/\ wpc = "after_read"
              /\ recv_size <= MetaSize
              /\ ~(recv_size < 0 /\ encoder_eof))
               => wpc' \in {"after_read", "loop"}]_vars

\* the thread left its loop on its own after the end-of-stream packet
C33_Witness ==
    wpc = "exited" /\ ~stop_thread /\ encoder_eof /\ hpc = "idle"

\* C34: when the parse gave no extradata and the first packet of the device
\* has been received and dealt with by the thread that received it, the
\* header cache is the whole payload of that first packet, and the packet is
\* on its way to the host: handed over, in the queue or freed with the queue,
\* or about to be enqueued.
C34_HeadersFromFirstPacket ==
    (/\ extra.src # "parse"
     /\ hpc # "destroyed"
     /\ dev_emitted >= 1
     /\ ~(wpc \in {"after_read", "set_headers"} /\ ni_pkt.id = 1)
     /\ ~(hpc = "sync_proc" /\ sync_pkt.id = 1))
    => /\ got_headers
       /\ extra.src = "pkt" /\ extra.id = 1 /\ extra.off = MetaSize
       /\ \/ \E i \in DOMAIN delivered : delivered[i].id = 1
          \/ \E i \in DOMAIN mem.enqueued : mem.enqueued[i] = 1
          \/ wpc \in {"enqueue", "locked"} /\ ni_pkt.id = 1

\* C35: netint_destroy writes its EOS frame to the device, and waits for
\* encoder_eof, only on a session that ni_logan_encode_open has opened; as
\* the cleanup of a netint_create that failed before or at the open it does
\* neither.
C35_EosOnlyOnOpenSession ==
    /\ [](hpc = "d_wait" => session_open)
    /\ [][(/\ hpc = "d_write"
           /\ (retry' # retry \/ hpc' \in {"d_stop", "d_wait"}))
          => session_open]_vars

\* C36: no SDK buffer is freed twice, freed without an allocation or
\* allocated over a buffer that is still there; between two calls of the
\* host no frame buffer and no packet buffer of a synchronous receive is
\* left; the packet buffer of the receive thread is gone when the thread has
\* ended; and after netint_destroy no SDK buffer is left.
C36_SdkBuffersFreedOnce ==
    /\ "bad" \notin {mem.frame_buf, mem.sync_buf, mem.pkt_buf}
    /\ hpc \in {"idle", "d_stop", "d_join", "d_free", "d_close", "destroyed",
                "no_ctx"}
         => (mem.frame_buf = "none" /\ mem.sync_buf = "none")
    /\ wpc = "exited" => mem.pkt_buf = "none"
    /\ WorkerAlive /\ wpc # "start" => mem.pkt_buf = "live"
    /\ hpc = "destroyed"
         => (mem.frame_buf = "none" /\ mem.sync_buf = "none"
             /\ mem.pkt_buf = "none")

\* an encode call failed on a full FIFO and freed its frame buffer, and the
\* receive thread has ended and freed its packet buffer
C36_Witness ==
    /\ hpc = "idle"
    /\ ~ret
    /\ why = "fifo_full"
    /\ mem.frame_buf = "none"
    /\ wpc = "exited"
    /\ encoder_eof

\* C37: when netint_encode(NULL) has returned false, flushing is clear and
\* the device has accepted no EOS frame, and the next flush does not take
\* the early return but tries to send the EOS frame, as netint_destroy does;
\* between two calls flushing is set exactly when the device has accepted
\* the EOS frame, and once that is so flushing stays set.
C37_FlushFailureResets ==
    /\ [](hpc = "idle" /\ frame = "NULL" /\ ~ret
            => (~flushing /\ dev_eos = 0))
    /\ [](hpc = "idle" => (flushing <=> dev_eos = 1))
    /\ [](~flushing => (FlushSends(flushing)
                        /\ (p_session_ctx
                              => DestroySends(flushing, p_session_ctx))))
    /\ [][(hpc = "flush" /\ ~flushing /\ hpc' = "idle")
          => (~ret' /\ why' = "alloc")]_vars
    /\ [][(flushing /\ dev_eos = 1) => flushing']_vars

\* a flush of a session with a frame in the device failed on a full FIFO
C37_Witness ==
    /\ hpc = "idle"
    /\ frame = "NULL"
    /\ ~ret
    /\ why = "fifo_full"
    /\ ~flushing
    /\ dev_eos = 0
    /\ dev_frames > 0

\* C38: of the frames the device accepted, a frame has force_key_frame=1
\* and the picture type IDR exactly when it carries start_of_stream=1, and
\* neither an EOS frame nor a data frame after the first data frame is
\* forced to be a keyframe.
C38_KeyframeOnlyAtStart ==
    \A i \in DOMAIN dev_written :
        /\ (dev_written[i].force = 1 /\ dev_written[i].idr)
             <=> dev_written[i].sos = 1
        /\ (dev_written[i].force = 1 \/ dev_written[i].idr)
             => /\ dev_written[i].eos = 0
                /\ \A j \in 1..(i - 1) : dev_written[j].eos = 1

\* C39: the bytes of every packet handed to the host are those of the
\* device packet behind its firmware metadata, whether the host thread took
\* the packet in its synchronous receive or from the queue.
C39_SamePacketEitherPath ==
    \A i \in DOMAIN delivered : delivered[i] = QueuedPacket(delivered[i].id)

\* C40: pthread_mutex_destroy is called on the queue mutex only while the
\* mutex is initialised: not on the mutex of a context whose
\* pthread_mutex_init was not reached or failed, and not a second time; and
\* a session that has been destroyed has its mutex destroyed.
C40_MutexDestroyedOnce ==
    /\ [](hpc = "destroyed" => queue_mutex = "destroyed")
    /\ [][(\/ hpc = "d_free" /\ hpc' = "d_close"
           \/ hpc = "c_thread" /\ hpc' = "c_fail")
          => queue_mutex = "init"]_vars

====
